---- MODULE Spec2Model ----
(***************************************************************************)
(* hfsplus-rescue: the volume header / fork record / extent descriptor     *)
(* decoders, the extent-mapped virtual file (HFSFile), the bounded device  *)
(* view (FileSlice) and the mutex-guarded seek-then-read transactions of   *)
(* FileSystem, as state machines.                                          *)
(*                                                                         *)
(* Numbers are unbounded integers kept far below 2^31 by the bounds, so    *)
(* the u32/u64 arithmetic of the program never wraps inside the model; the *)
(* one place where the program's result depends on wrapping (the u64       *)
(* subtraction in FileSlice::seek) is modelled by its two build outcomes.  *)
(***************************************************************************)
EXTENDS Integers, Sequences, FiniteSets, TLC

VARIABLES img, pos, header, hfile, last, slice, locked, pc, req, got

vars == <<img, pos, header, hfile, last, slice, locked, pc, req, got>>

(***************************************************************************)
(* Program constants (src/src/filesystem.rs:12-17, 259-261).               *)
(***************************************************************************)
OFFSET_VOLUME_HEADER == 1024
OFFSET_VOLUME_HEADER_FORKS == 112
OFFSET_FORK_DATA_EXTENT_RECORD == 16
SIZE_EXTENT_DESCRIPTOR == 8
SIZE_EXTENT_RECORD == SIZE_EXTENT_DESCRIPTOR * 8
SIZE_FORK_DATA == 16 + SIZE_EXTENT_RECORD
num_extent_descriptors == 8
\* b"H+"
SIGNATURE == <<72, 43>>

(***************************************************************************)
(* Bounds of the model.                                                    *)
(***************************************************************************)
\* largest logical size (bytes) of the fork records of an image
MaxLogical == 3
\* largest block count of a populated extent slot
MaxCount == 2
\* largest read buffer handed to HFSFile::read / FileSlice::read
MaxBuf == 2
\* largest magnitude of a seek argument
MaxSeek == 3
\* size of the underlying source of a FileSlice
MaxSrc == 4
\* number of threads sharing one FileSystem
NumThreads == 2
\* largest block size an image's volume header declares
MaxBlockSize == 2
\* size in bytes of a whole device image (the header ends at 1536)
DeviceSize == 2048

Min(a, b) == IF a < b THEN a ELSE b

(***************************************************************************)
(* The device image.  An image is what a test fixture would write: a       *)
(* signature, a block size and five fork records laid out the way the      *)
(* HFS+ volume header lays them out (fork f at 1024 + 112 + 80 f, extent   *)
(* slot i of a fork at +16 + 8 i), and data bytes below the header.  The   *)
(* program only ever sees the bytes, through ImageByte.                    *)
(***************************************************************************)
Slot(s, c) == [start_block |-> s, block_count |-> c]

ZeroSlot == Slot(0, 0)

\* a fork record whose first two slots are given and the other six are unused
Fork(size, s0, s1) ==
    [logical_size |-> size,
     slots |-> <<s0, s1, ZeroSlot, ZeroSlot, ZeroSlot, ZeroSlot, ZeroSlot, ZeroSlot>>]

ZeroFork == Fork(0, ZeroSlot, ZeroSlot)

\* byte k (0 = most significant) of the w-byte big-endian encoding of v
RECURSIVE BEByte(_, _, _)
BEByte(v, w, k) ==
    IF k = w - 1 THEN v % 256 ELSE BEByte(v \div 256, w - 1, k)

\* byte at offset off (0..79) of a fork record
ForkByte(fk, off) ==
    IF off < 8 THEN BEByte(fk.logical_size, 8, off)
    ELSE IF off < OFFSET_FORK_DATA_EXTENT_RECORD THEN 0
    ELSE LET i == (off - 16) \div 8
             o == (off - 16) % 8
         IN  IF o < 4 THEN BEByte(fk.slots[i + 1].start_block, 4, o)
             ELSE BEByte(fk.slots[i + 1].block_count, 4, o - 4)

\* the byte the image holds at absolute address a (a < im.size)
ImageByte(im, a) ==
    IF a < OFFSET_VOLUME_HEADER THEN a % 256
    ELSE LET h == a - OFFSET_VOLUME_HEADER
         IN  IF h < 2 THEN im.sig[h + 1]
             ELSE IF h < 4 THEN BEByte(im.version, 2, h - 2)
             ELSE IF h >= 40 /\ h < 44 THEN BEByte(im.block_size, 4, h - 40)
             ELSE IF h >= 112 /\ h < 112 + 80 * 5
                  THEN ForkByte(im.forks[((h - 112) \div 80) + 1], (h - 112) % 80)
             ELSE 0

(***************************************************************************)
(* The byte source F behind the FileSystem's mutex (a std::fs::File or     *)
(* io::Cursor over the image): seek(Start(x)) moves the cursor to x, also  *)
(* past the end; read returns what is left from the cursor, possibly       *)
(* nothing; read_exact fails unless the whole buffer can be filled.        *)
(***************************************************************************)
SourceAvail(im, p, n) == IF p >= im.size THEN 0 ELSE Min(n, im.size - p)

SourceBytes(im, p, k) == [i \in 1..k |-> ImageByte(im, p + i - 1)]

\* num::PrimInt::from_be of bytes read into the integer's memory
RECURSIVE FromBE(_)
FromBE(bytes) ==
    IF Len(bytes) = 0 THEN 0
    ELSE 256 * FromBE(SubSeq(bytes, 1, Len(bytes) - 1)) + bytes[Len(bytes)]

\* one seek-then-read on the source, as a log entry
Txn(at, n) == [at |-> at, n |-> n]

\* Structure::read: lock, seek(Start(get_offset() + offset)), read(buff)
Structure_read(im, base, offset, n) ==
    LET at == base + offset
        k  == SourceAvail(im, at, n)
    IN  [n |-> k, bytes |-> SourceBytes(im, at, k), pos |-> at + k, txn |-> Txn(at, n)]

\* Structure::read_number::<T>, size_of::<T>() = width
read_number(im, base, offset, width) ==
    LET at == base + offset
        k  == SourceAvail(im, at, width)
    IN  [ok  |-> k = width,
         val |-> IF k = width THEN FromBE(SourceBytes(im, at, width)) ELSE 0,
         pos |-> at + k,
         txn |-> Txn(at, width)]

\* validate_bytes stopping its comparison after the first byte
validate_bytes_first_only(im, offset, bytes) ==
    LET k    == SourceAvail(im, offset, Len(bytes))
        data == SourceBytes(im, offset, k)
    IN  [status |-> IF k < Len(bytes) THEN "IOError"
                    ELSE IF bytes[1] # data[1] THEN "InvalidVolumeHeader"
                    ELSE "Ok",
         pos |-> offset + k,
         log |-> <<Txn(offset, Len(bytes))>>]

\* FileSystem::validate_bytes
validate_bytes(im, offset, bytes) ==
    LET k    == SourceAvail(im, offset, Len(bytes))
        data == SourceBytes(im, offset, k)
    IN  [status |-> IF k < Len(bytes) THEN "IOError"
                    ELSE IF \E i \in 1..Len(bytes) : bytes[i] # data[i]
                         THEN "InvalidVolumeHeader"
                    ELSE "Ok",
         pos |-> offset + k,
         log |-> <<Txn(offset, Len(bytes))>>]

\* VolumeHeader::validate
validate(im, offset) == validate_bytes(im, offset, SIGNATURE)

\* FileSystem::get_volume_header: VolumeHeader::new(self, 1024), validate()?
get_volume_header(im) ==
    LET v == validate(im, OFFSET_VOLUME_HEADER)
    IN  [status |-> v.status, offset |-> OFFSET_VOLUME_HEADER, pos |-> v.pos, log |-> v.log]

\* VolumeHeader::get_fork_data_allocation .. get_fork_data_startup, f = 0..4
get_fork_data(header_offset, f) ==
    header_offset + OFFSET_VOLUME_HEADER_FORKS + SIZE_FORK_DATA * f

\* ForkData::get_extent_descriptor: the base offset of the descriptor view
get_extent_descriptor(fork_offset, index) ==
    fork_offset + OFFSET_FORK_DATA_EXTENT_RECORD + SIZE_EXTENT_RECORD * index

(***************************************************************************)
(* HFSFile (the virtual file).                                             *)
(***************************************************************************)
NoFile ==
    [status |-> "None", fork |-> 0, length |-> 0, block_size |-> 0,
     offsets |-> <<>>, offset |-> 0]

\* an Err(..) of HFSFile::new: no HFSFile value exists
NewFailed(status, f) ==
    [status |-> status, fork |-> f, length |-> 0, block_size |-> 0,
     offsets |-> <<>>, offset |-> 0]

\* the for loop of HFSFile::new from slot idx on; d = [pos, log] is the source's
\* cursor and the transactions issued so far
RECURSIVE ExtentLoop(_, _, _, _, _, _, _, _)
ExtentLoop(im, fork_offset, length, block_size, idx, seen_blocks, offsets, d) ==
    LET end_offset_bytes == seen_blocks * block_size
    IN  IF idx >= num_extent_descriptors \/ end_offset_bytes >= length
        THEN [ok |-> TRUE, seen_blocks |-> seen_blocks, offsets |-> offsets, d |-> d]
        ELSE LET descriptor == get_extent_descriptor(fork_offset, idx)
                 sb == read_number(im, descriptor, 0, 4)
                 bc == read_number(im, descriptor, 4, 4)
             IN  IF ~sb.ok
                 THEN [ok |-> FALSE, seen_blocks |-> seen_blocks, offsets |-> offsets,
                       d |-> [pos |-> sb.pos, log |-> Append(d.log, sb.txn)]]
                 ELSE IF ~bc.ok
                 THEN [ok |-> FALSE, seen_blocks |-> seen_blocks, offsets |-> offsets,
                       d |-> [pos |-> bc.pos, log |-> d.log \o <<sb.txn, bc.txn>>]]
                 ELSE ExtentLoop(im, fork_offset, length, block_size, idx + 1,
                                 seen_blocks + bc.val,
                                 Append(offsets, <<end_offset_bytes, sb.val>>),
                                 [pos |-> bc.pos, log |-> d.log \o <<sb.txn, bc.txn>>])

\* HFSFile::new(parent, fork_data) for fork f of the volume header:
\* [file, pos, log]
HFSFile_new(im, header_offset, f) ==
    LET fork_offset == get_fork_data(header_offset, f)
        length == read_number(im, fork_offset, 0, 8)
        vh == get_volume_header(im)
        block_size == read_number(im, vh.offset, 40, 4)
    IN  IF ~length.ok
        THEN [file |-> NewFailed("IOError", f), pos |-> length.pos, log |-> <<length.txn>>]
        ELSE IF vh.status # "Ok"
        THEN [file |-> NewFailed(vh.status, f), pos |-> vh.pos,
              log |-> <<length.txn>> \o vh.log]
        ELSE IF ~block_size.ok
        THEN [file |-> NewFailed("IOError", f), pos |-> block_size.pos,
              log |-> <<length.txn>> \o vh.log \o <<block_size.txn>>]
        ELSE LET lp == ExtentLoop(im, fork_offset, length.val, block_size.val, 0, 0, <<>>,
                                  [pos |-> block_size.pos,
                                   log |-> <<length.txn>> \o vh.log \o <<block_size.txn>>])
             IN  IF ~lp.ok
                 THEN [file |-> NewFailed("IOError", f), pos |-> lp.d.pos, log |-> lp.d.log]
                 ELSE IF lp.seen_blocks * block_size.val < length.val
                 THEN [file |-> NewFailed("ExtentOverflowNotSupported", f),
                       pos |-> lp.d.pos, log |-> lp.d.log]
                 ELSE [file |-> [status |-> "Ok", fork |-> f, length |-> length.val,
                                 block_size |-> block_size.val, offsets |-> lp.offsets,
                                 offset |-> 0],
                       pos |-> lp.d.pos, log |-> lp.d.log]

\* what offsets.binary_search_by_key(&key, |&(o, _)| o) can return, mapped by the
\* match of HFSFile::read (Ok(idx) => idx, Err(idx) => idx - 1), 0-based: any
\* index holding the key when there is one, else the insertion point less one
binary_search_extent(offsets, key) ==
    LET hits == {i \in 1..Len(offsets) : offsets[i][1] = key}
    IN  IF hits # {} THEN {i - 1 : i \in hits}
        ELSE {Cardinality({i \in 1..Len(offsets) : offsets[i][1] < key}) - 1}

\* HFSFile::read with a buffer of buf_len bytes, the search having answered
\* extent_index: [panic, n, bytes, file, pos, log]
HFSFile_read(im, file, buf_len, extent_index, p) ==
    IF file.offset > file.length
    THEN [panic |-> TRUE, n |-> 0, bytes |-> <<>>, file |-> [file EXCEPT !.status = "Panicked"],
          pos |-> p, log |-> <<>>]
    ELSE LET read_size == Min(buf_len, file.length - file.offset)
         IN  IF read_size = 0
             THEN [panic |-> FALSE, n |-> 0, bytes |-> <<>>, file |-> file, pos |-> p,
                   log |-> <<>>]
             ELSE LET extent_offset == file.offsets[extent_index + 1][2] * file.block_size
                      intra_extent_offset == file.offset - file.offsets[extent_index + 1][1]
                      fs_offset == extent_offset + intra_extent_offset
                      r == Structure_read(im, 0, fs_offset, read_size)
                  IN  [panic |-> FALSE, n |-> r.n, bytes |-> r.bytes,
                       file |-> [file EXCEPT !.offset = file.offset + r.n],
                       pos |-> r.pos, log |-> <<r.txn>>]

\* HFSFile::seek: from = <<"Start", n>>, <<"End", d>> or <<"Current", d>>;
\* the file after the call, status "Panicked" where the code panics
HFSFile_seek(file, from) ==
    LET kind == from[1]
        offset == from[2]
    IN  IF kind = "Start" THEN [file EXCEPT !.offset = offset]
        ELSE IF kind = "End"
        THEN IF offset >= 0 THEN [file EXCEPT !.offset = file.length + offset]
             ELSE IF -offset > file.length THEN [file EXCEPT !.status = "Panicked"]
             ELSE [file EXCEPT !.offset = file.length - (-offset)]
        ELSE IF offset >= 0 THEN [file EXCEPT !.offset = file.offset + offset]
             ELSE IF -offset > file.offset THEN [file EXCEPT !.status = "Panicked"]
             ELSE [file EXCEPT !.offset = file.offset - (-offset)]

(***************************************************************************)
(* SpecFile: one thread opens one of the five special files of an image    *)
(* and seeks and reads it.                                                 *)
(***************************************************************************)
\* populated slots: an extent at block 0 or, not adjacent to it, at block 4
ExtentChoices == {Slot(s, c) : s \in {0, 4}, c \in 0..MaxCount}

\* the fork record that follows the allocation fork in the header
NextForks == {ZeroFork, Fork(1, Slot(4, 1), ZeroSlot)}

FileImages ==
    {[size |-> DeviceSize, sig |-> SIGNATURE, version |-> 4, block_size |-> bs,
      forks |-> <<Fork(n, a, b), g, ZeroFork, ZeroFork, ZeroFork>>] :
        bs \in 1..MaxBlockSize, n \in 0..MaxLogical,
        a \in ExtentChoices, b \in ExtentChoices, g \in NextForks}

NoImage == [size |-> 0, sig |-> <<0, 0>>, version |-> 0, block_size |-> 0,
            forks |-> <<ZeroFork, ZeroFork, ZeroFork, ZeroFork, ZeroFork>>]

NoSlice == [status |-> "None", offset |-> 0, length |-> 0, given |-> <<"None">>]

Threads == 1..NumThreads

NoRequest == [kind |-> "none", at |-> 0, n |-> 0]

NoResult == [sought |-> FALSE, status |-> "none", bytes |-> <<>>, val |-> 0]

\* the variables of the other specifications, parked
ThreadsIdle ==
    /\ locked = FALSE
    /\ pc = [t \in Threads |-> "idle"]
    /\ req = [t \in Threads |-> NoRequest]
    /\ got = [t \in Threads |-> NoResult]

SeekFroms ==
    {<<"Start", n>> : n \in 0..MaxSeek}
        \cup {<<k, d>> : k \in {"End", "Current"}, d \in (-MaxSeek)..MaxSeek}

NoHeader == [status |-> "None", offset |-> 0]

InitFile ==
    /\ img \in FileImages
    /\ pos = 0
    /\ header = NoHeader
    /\ hfile = NoFile
    /\ last = [op |-> "none"]
    /\ slice = NoSlice
    /\ ThreadsIdle

\* FileSystem::get_volume_header; on Err no VolumeHeader value exists
GetVolumeHeader ==
    /\ header.status = "None"
    /\ LET r == get_volume_header(img)
       IN  /\ header' = [status |-> r.status, offset |-> r.offset]
           /\ pos' = r.pos
           /\ last' = [op |-> "get_volume_header", log |-> r.log]
    /\ UNCHANGED <<img, hfile, slice, locked, pc, req, got>>

\* VolumeHeader::get_file_allocation .. get_file_startup
Open(f) ==
    /\ header.status = "Ok"
    /\ hfile.status = "None"
    /\ LET r == HFSFile_new(img, header.offset, f)
       IN  /\ hfile' = r.file
           /\ pos' = r.pos
           /\ last' = [op |-> "new", log |-> r.log]
    /\ UNCHANGED <<img, header, slice, locked, pc, req, got>>

\* <HFSFile as Seek>::seek
Seek(from) ==
    /\ hfile.status = "Ok"
    /\ LET file == HFSFile_seek(hfile, from)
       IN  /\ file.offset <= MaxLogical + MaxSeek
           /\ hfile' = file
           /\ last' = [op |-> "seek", panic |-> file.status = "Panicked", ret |-> file.offset]
    /\ UNCHANGED <<img, pos, header, slice, locked, pc, req, got>>

\* <HFSFile as Read>::read
Read(buf_len) ==
    /\ hfile.status = "Ok"
    /\ \E extent_index \in
            IF hfile.offset < hfile.length /\ buf_len > 0
            THEN binary_search_extent(hfile.offsets, hfile.offset) ELSE {0} :
          LET r == HFSFile_read(img, hfile, buf_len, extent_index, pos)
          IN  /\ hfile' = r.file
              /\ pos' = r.pos
              /\ last' = [op |-> "read", panic |-> r.panic, from |-> hfile.offset,
                          buf_len |-> buf_len, n |-> r.n, bytes |-> r.bytes]
    /\ UNCHANGED <<img, header, slice, locked, pc, req, got>>

NextFile ==
    \/ GetVolumeHeader
    \/ \E f \in 0..4 : Open(f)
    \/ \E from \in SeekFroms : Seek(from)
    \/ \E n \in 0..MaxBuf : Read(n)

SpecFile == InitFile /\ [][NextFile]_vars

(***************************************************************************)
(* What the image says about a fork, read off the fork record itself (its  *)
(* eight slots at +16 + 8 i): the reference the claims compare the program *)
(* against.                                                                *)
(***************************************************************************)
\* the fork record of the image that hfile was opened on
OpenedFork == img.forks[hfile.fork + 1]

\* blocks of the first k slots of a fork record
RECURSIVE BlocksOf(_, _)
BlocksOf(fk, k) == IF k = 0 THEN 0 ELSE BlocksOf(fk, k - 1) + fk.slots[k].block_count

\* bytes the first k slots cover
Coverage(fk, k) == BlocksOf(fk, k) * img.block_size

\* the number of leading slots needed to reach the logical size; 9 when eight
\* do not
SlotsNeeded(fk) ==
    IF Coverage(fk, num_extent_descriptors) < fk.logical_size THEN 9
    ELSE CHOOSE k \in 0..num_extent_descriptors :
            /\ Coverage(fk, k) >= fk.logical_size
            /\ \A j \in 0..(k - 1) : Coverage(fk, j) < fk.logical_size

\* the device address of logical byte x of a fork: start_block of the covering
\* extent * block_size + the offset inside that extent (x < Coverage(fk, 8))
PhysicalAddress(fk, x) ==
    LET k == CHOOSE j \in 1..num_extent_descriptors :
                Coverage(fk, j - 1) <= x /\ x < Coverage(fk, j)
    IN  fk.slots[k].start_block * img.block_size + (x - Coverage(fk, k - 1))

\* C1: every byte a read of a successfully constructed virtual file returns is
\* the device byte at the address the fork's extent list maps its logical
\* offset to, also when the read reaches past the extent covering the cursor.
C1_ReadRoundTrip ==
    (hfile.status = "Ok" /\ last.op = "read"
        /\ Coverage(OpenedFork, num_extent_descriptors) >= OpenedFork.logical_size)
    => \A i \in 1..Len(last.bytes) :
          last.bytes[i] = ImageByte(img, PhysicalAddress(OpenedFork, last.from + i - 1))

\* C2: after seeks and reads that all returned success the cursor of the
\* virtual file is within 0..length.
C2_CursorWithinLength ==
    hfile.status = "Ok" => (0 <= hfile.offset /\ hfile.offset <= hfile.length)

\* C3: a fork record whose logical size exceeds block_size * (the block counts
\* of its eight slots) is refused with ExtentOverflowNotSupported, and no
\* virtual file is constructed with less coverage than the logical size.
C3_ExtentOverflowRefused ==
    (hfile.status # "None")
    => /\ (OpenedFork.logical_size > Coverage(OpenedFork, num_extent_descriptors)
            => hfile.status = "ExtentOverflowNotSupported")
       /\ (hfile.status \in {"Ok", "Panicked"}
            => Coverage(OpenedFork, num_extent_descriptors) >= OpenedFork.logical_size)

\* C9: the extent-offset table of a constructed virtual file has exactly k
\* entries, k the number of leading slots needed to cover the logical size;
\* its first logical start is 0 and the logical starts strictly increase.
C9_TableShape ==
    (hfile.status = "Ok" /\ SlotsNeeded(OpenedFork) <= num_extent_descriptors)
    => /\ Len(hfile.offsets) = SlotsNeeded(OpenedFork)
       /\ (Len(hfile.offsets) > 0 => hfile.offsets[1][1] = 0)
       /\ \A i \in 1..(Len(hfile.offsets) - 1) :
             hfile.offsets[i][1] < hfile.offsets[i + 1][1]

(***************************************************************************)
(* SpecHeader: one thread asks for the volume header of an image whose     *)
(* signature bytes and size vary, decodes header fields, and prints the    *)
(* extent descriptors of the five forks as print_fork_extents does.        *)
(***************************************************************************)
HeaderImages ==
    {[size |-> sz, sig |-> <<s1, s2>>, version |-> 4, block_size |-> bs,
      forks |-> <<Fork(MaxLogical, Slot(0, 1), Slot(4, MaxCount)), ZeroFork, ZeroFork,
                  ZeroFork, ZeroFork>>] :
        sz \in {OFFSET_VOLUME_HEADER, OFFSET_VOLUME_HEADER + 1, OFFSET_VOLUME_HEADER + 2,
                DeviceSize},
        s1 \in {0, 43, 72}, s2 \in {0, 43, 72}, bs \in 1..MaxBlockSize}

\* get_version, get_file_count, get_folder_count, get_block_size,
\* get_total_blocks, get_free_blocks: <<offset, size_of::<T>()>>
HeaderFields == {<<2, 2>>, <<32, 4>>, <<36, 4>>, <<40, 4>>, <<44, 4>>, <<48, 4>>}

InitHeader ==
    /\ img \in HeaderImages
    /\ pos = 0
    /\ header = NoHeader
    /\ hfile = NoFile
    /\ last = [op |-> "none"]
    /\ slice = NoSlice
    /\ ThreadsIdle

\* VolumeHeader::get_version .. get_free_blocks
GetField(fld) ==
    /\ header.status = "Ok"
    /\ LET r == read_number(img, header.offset, fld[1], fld[2])
       IN  /\ last' = [op |-> "field", ok |-> r.ok, val |-> r.val, log |-> <<r.txn>>]
           /\ pos' = r.pos
    /\ UNCHANGED <<img, header, hfile, slice, locked, pc, req, got>>

\* print_fork_extents: fork.get_extent_descriptor(i), then its Display
\* (get_start_block, get_block_count)
PrintExtent(f, i) ==
    /\ header.status = "Ok"
    /\ LET fork_offset == get_fork_data(header.offset, f)
           descriptor == get_extent_descriptor(fork_offset, i)
           sb == read_number(img, descriptor, 0, 4)
           bc == read_number(img, descriptor, 4, 4)
       IN  /\ last' = [op |-> "extent", fork |-> f, fork_offset |-> fork_offset, index |-> i,
                       offset |-> descriptor, ok |-> sb.ok /\ bc.ok,
                       start_block |-> sb.val, block_count |-> bc.val,
                       log |-> <<sb.txn, bc.txn>>]
           /\ pos' = bc.pos
    /\ UNCHANGED <<img, header, hfile, slice, locked, pc, req, got>>

NextHeader ==
    \/ GetVolumeHeader
    \/ \E fld \in HeaderFields : GetField(fld)
    \/ \E f \in 0..4, i \in 0..(num_extent_descriptors - 1) : PrintExtent(f, i)

SpecHeader == InitHeader /\ [][NextHeader]_vars

\* C4: the descriptor view of slot i of the fork record at B has base offset
\* B + 16 + 8 i, inside the fork's own 80-byte record.
C4_SlotAddressing ==
    last.op = "extent"
    => /\ last.offset = last.fork_offset + 16 + 8 * last.index
       /\ last.fork_offset <= last.offset
       /\ last.offset + SIZE_EXTENT_DESCRIPTOR <= last.fork_offset + 80

\* the two signature bytes are on the device
SignaturePresent == img.size >= OFFSET_VOLUME_HEADER + 2

SignatureIsHPlus ==
    ImageByte(img, 1024) = 72 /\ ImageByte(img, 1025) = 43

\* C5: get_volume_header answers InvalidVolumeHeader when the bytes at 1024 and
\* 1025 are not "H+" and a header view when they are, and a call that fails has
\* issued one device transaction only, the two-byte read at 1024; no field is
\* decoded without a header view.
C5_SignatureGate ==
    /\ last.op = "get_volume_header"
        => /\ (SignaturePresent /\ ~SignatureIsHPlus) => header.status = "InvalidVolumeHeader"
           /\ (SignaturePresent /\ SignatureIsHPlus) => header.status = "Ok"
           /\ header.status # "Ok" => last.log = <<Txn(1024, 2)>>
    /\ last.op \in {"field", "extent"} => (header.status = "Ok" /\ SignatureIsHPlus)

\* a device whose byte 1024 is "H" and whose byte 1025 is not "+" was refused
C5_Witness ==
    /\ last.op = "get_volume_header"
    /\ SignaturePresent
    /\ ImageByte(img, 1024) = 72
    /\ ImageByte(img, 1025) # 43
    /\ header.status = "InvalidVolumeHeader"

(***************************************************************************)
(* FileSlice (the bounded device view) over an inner file of img.size      *)
(* bytes whose cursor is pos.  The inner file is a std::fs::File or        *)
(* io::Cursor: seeking to a negative position is an error that leaves the  *)
(* cursor alone, seeking past the end is allowed.                          *)
(***************************************************************************)
\* file.seek(from) of the inner file: [ok, pos]
InnerSeek(size, p, from) ==
    LET target == IF from[1] = "Start" THEN from[2]
                  ELSE IF from[1] = "End" THEN size + from[2]
                  ELSE p + from[2]
    IN  IF target < 0 THEN [ok |-> FALSE, pos |-> p] ELSE [ok |-> TRUE, pos |-> target]

\* FileSlice::new(file, offset, length), length = <<"None">> or <<"Some", n>>:
\* [slice, pos]; the inner cursor is left at the end by seek(End(0))
FileSlice_new(size, offset, length) ==
    LET file_length == InnerSeek(size, 0, <<"End", 0>>).pos
        failed == [status |-> "InvalidFileView", offset |-> 0, length |-> 0, given |-> length]
    IN  IF file_length < offset THEN [slice |-> failed, pos |-> file_length]
        ELSE IF length[1] = "None"
        THEN [slice |-> [status |-> "Ok", offset |-> offset,
                         length |-> file_length - offset, given |-> length],
              pos |-> file_length]
        ELSE IF file_length < offset + length[2] THEN [slice |-> failed, pos |-> file_length]
        ELSE [slice |-> [status |-> "Ok", offset |-> offset, length |-> length[2],
                         given |-> length],
              pos |-> file_length]

\* the closure |o| o - self.offset on u64: below zero the subtraction panics in
\* a build with overflow checks and wraps to o - self.offset + 2^64 without;
\* a wrapped value is kept as (wrapped, o - self.offset)
MapBack(sl, r) ==
    IF ~r.ok THEN {[result |-> "Err", ret |-> 0, wrapped |-> FALSE, pos |-> r.pos]}
    ELSE IF r.pos >= sl.offset
    THEN {[result |-> "Ok", ret |-> r.pos - sl.offset, wrapped |-> FALSE, pos |-> r.pos]}
    ELSE {[result |-> "Panic", ret |-> 0, wrapped |-> FALSE, pos |-> r.pos],
          [result |-> "Ok", ret |-> r.pos - sl.offset, wrapped |-> TRUE, pos |-> r.pos]}

\* <FileSlice as Seek>::seek: the outcomes [result, ret, wrapped, pos]
FileSlice_seek(sl, size, p, from) ==
    IF from[1] = "Start"
    THEN MapBack(sl, InnerSeek(size, p, <<"Start", from[2] + sl.offset>>))
    ELSE IF from[1] = "Current"
    THEN MapBack(sl, InnerSeek(size, p, <<"Current", from[2]>>))
    ELSE MapBack(sl, InnerSeek(size, p, <<"End", sl.offset + sl.length + from[2]>>))

\* <FileSlice as Read>::read: self.file.read(data): [n, from, pos]
FileSlice_read(im, p, n) ==
    LET k == SourceAvail(im, p, n)
    IN  [n |-> k, bytes |-> SourceBytes(im, p, k), from |-> p, pos |-> p + k]

(***************************************************************************)
(* SpecSlice: one owner builds a view over a source and seeks and reads    *)
(* through it.                                                             *)
(***************************************************************************)
SliceSources == {[NoImage EXCEPT !.size = n] : n \in 0..MaxSrc}

SliceLengths == {<<"None">>} \cup {<<"Some", n>> : n \in 0..MaxSrc}

InitSlice ==
    /\ img \in SliceSources
    /\ pos = 0
    /\ header = NoHeader
    /\ hfile = NoFile
    /\ last = [op |-> "none"]
    /\ slice = NoSlice
    /\ ThreadsIdle

SliceNew(offset, length) ==
    /\ slice.status = "None"
    /\ LET r == FileSlice_new(img.size, offset, length)
       IN  /\ slice' = r.slice
           /\ pos' = r.pos
    /\ last' = [op |-> "new"]
    /\ UNCHANGED <<img, header, hfile, locked, pc, req, got>>

SliceSeek(from) ==
    /\ slice.status = "Ok"
    /\ \E r \in FileSlice_seek(slice, img.size, pos, from) :
          /\ r.pos <= 2 * MaxSrc + MaxSeek
          /\ pos' = r.pos
          /\ slice' = IF r.result = "Panic" THEN [slice EXCEPT !.status = "Panicked"]
                      ELSE slice
          /\ last' = [op |-> "seek", from |-> from, result |-> r.result, ret |-> r.ret,
                      wrapped |-> r.wrapped]
    /\ UNCHANGED <<img, header, hfile, locked, pc, req, got>>

SliceRead(n) ==
    /\ slice.status = "Ok"
    /\ LET r == FileSlice_read(img, pos, n)
       IN  /\ pos' = r.pos
           /\ last' = [op |-> "read", from |-> r.from, n |-> r.n, bytes |-> r.bytes]
    /\ UNCHANGED <<img, header, hfile, slice, locked, pc, req, got>>

NextSlice ==
    \/ \E offset \in 0..(MaxSrc + 1), length \in SliceLengths : SliceNew(offset, length)
    \/ \E from \in SeekFroms : SliceSeek(from)
    \/ \E n \in 0..MaxBuf : SliceRead(n)

SpecSlice == InitSlice /\ [][NextSlice]_vars

\* C6: a view built with no explicit length has length S - o, and no read
\* through it returns a byte of the source from outside [o, o + length).
C6_ReadsInsideWindow ==
    (slice.status = "Ok" /\ slice.given = <<"None">>)
    => /\ slice.length = img.size - slice.offset
       /\ last.op = "read"
            => \A i \in 0..(last.n - 1) :
                  /\ slice.offset <= last.from + i
                  /\ last.from + i < slice.offset + slice.length

\* C8: seek(Start(p)) leaves the source at o + p and reports p; seek(End(d))
\* leaves the source at o + len + d and reports len + d.
C8_SeeksWindowRelative ==
    (slice.status = "Ok" /\ last.op = "seek" /\ last.result = "Ok")
    => /\ last.from[1] = "Start"
            => (pos = slice.offset + last.from[2] /\ last.ret = last.from[2]
                /\ ~last.wrapped)
       /\ last.from[1] = "End"
            => (pos = slice.offset + slice.length + last.from[2]
                /\ last.ret = slice.length + last.from[2] /\ ~last.wrapped)

(***************************************************************************)
(* SpecLock: threads sharing one FileSystem.  Every transaction has the    *)
(* shape of Structure::read, Structure::read_number and                    *)
(* FileSystem::validate_bytes: file.lock().unwrap(), file.seek(Start(..))?,*)
(* file.read(..) or file.read_exact(..)?, and the MutexGuard dropped when  *)
(* the scope is left, by return or by `?`.  pc[t] is where thread t        *)
(* stands:                                                                 *)
(*   idle -> lock -> seek -> read -> unlock -> done -> idle                *)
(* and a failed seek goes from seek to unlock.  The source may fail any    *)
(* seek; a read fails when read_exact cannot fill its buffer.              *)
(***************************************************************************)
LockImages ==
    {[size |-> x[1], sig |-> x[2], version |-> 4, block_size |-> MaxBlockSize,
      forks |-> <<ZeroFork, ZeroFork, ZeroFork, ZeroFork, ZeroFork>>] :
        x \in {<<DeviceSize, SIGNATURE>>, <<DeviceSize, <<72, 0>>>>,
               <<OFFSET_VOLUME_HEADER + 1, SIGNATURE>>}}

\* the transactions a thread may ask for: the signature check of
\* get_volume_header, the decode of the block size, and a virtual-file read
\* (Structure::read on the FileSystem, base 0) of MaxBuf bytes
LockRequests ==
    {[kind |-> "validate_bytes", at |-> OFFSET_VOLUME_HEADER, n |-> 2],
     [kind |-> "read_number", at |-> OFFSET_VOLUME_HEADER + 40, n |-> 4],
     [kind |-> "read", at |-> OFFSET_VOLUME_HEADER - 1, n |-> MaxBuf]}

Critical == {"seek", "read", "unlock"}

InitLock ==
    /\ img \in LockImages
    /\ pos = 0
    /\ header = NoHeader
    /\ hfile = NoFile
    /\ last = [op |-> "none"]
    /\ slice = NoSlice
    /\ ThreadsIdle

\* a thread enters Structure::read, read_number or validate_bytes
Call(t, r) ==
    /\ pc[t] = "idle"
    /\ pc' = [pc EXCEPT ![t] = "lock"]
    /\ req' = [req EXCEPT ![t] = r]
    /\ UNCHANGED <<img, pos, header, hfile, last, slice, locked, got>>

\* a lock that does not exclude: the seek and the read of a transaction each
\* taken without holding the mutex across both
AcquireWithoutExclusion(t) ==
    /\ pc[t] = "lock"
    /\ locked' = TRUE
    /\ pc' = [pc EXCEPT ![t] = "seek"]
    /\ UNCHANGED <<img, pos, header, hfile, last, slice, req, got>>

\* self.file.lock().unwrap(): blocks while another guard is alive
Acquire(t) ==
    /\ pc[t] = "lock"
    /\ ~locked
    /\ locked' = TRUE
    /\ pc' = [pc EXCEPT ![t] = "seek"]
    /\ UNCHANGED <<img, pos, header, hfile, last, slice, req, got>>

\* file.seek(SeekFrom::Start(..)) returned Ok
SeekOk(t) ==
    /\ pc[t] = "seek"
    /\ pos' = req[t].at
    /\ got' = [got EXCEPT ![t] = [NoResult EXCEPT !.sought = TRUE]]
    /\ pc' = [pc EXCEPT ![t] = "read"]
    /\ UNCHANGED <<img, header, hfile, last, slice, locked, req>>

\* file.seek(..)? returned Err: the function returns the error
SeekErr(t) ==
    /\ pc[t] = "seek"
    /\ got' = [got EXCEPT ![t] = [NoResult EXCEPT !.status = "IOError"]]
    /\ pc' = [pc EXCEPT ![t] = "unlock"]
    /\ UNCHANGED <<img, pos, header, hfile, last, slice, locked, req>>

\* file.read(buff) of Structure::read; file.read_exact(..)? and from_be of
\* read_number; file.read_exact(..)? and the comparison of validate_bytes:
\* all read at the source's cursor
ReadStep(t) ==
    /\ pc[t] = "read"
    /\ LET r == req[t]
           k == SourceAvail(img, pos, r.n)
           bytes == SourceBytes(img, pos, k)
           status == IF r.kind = "read" THEN "Ok"
                     ELSE IF k < r.n THEN "IOError"
                     ELSE IF r.kind = "validate_bytes"
                             /\ \E i \in 1..Len(SIGNATURE) : SIGNATURE[i] # bytes[i]
                          THEN "InvalidVolumeHeader"
                     ELSE "Ok"
       IN  /\ pos' = pos + k
           /\ got' = [got EXCEPT ![t] =
                        [sought |-> TRUE, status |-> status, bytes |-> bytes,
                         val |-> IF r.kind = "read_number" /\ status = "Ok"
                                 THEN FromBE(bytes) ELSE 0]]
    /\ pc' = [pc EXCEPT ![t] = "unlock"]
    /\ UNCHANGED <<img, header, hfile, last, slice, locked, req>>

\* an unlock written out on the success path only: an early return by `?`
\* keeps the mutex locked
ReleaseOnSuccessOnly(t) ==
    /\ pc[t] = "unlock"
    /\ locked' = (got[t].status = "IOError")
    /\ pc' = [pc EXCEPT ![t] = "done"]
    /\ UNCHANGED <<img, pos, header, hfile, last, slice, req, got>>

\* the MutexGuard goes out of scope
Release(t) ==
    /\ pc[t] = "unlock"
    /\ locked' = FALSE
    /\ pc' = [pc EXCEPT ![t] = "done"]
    /\ UNCHANGED <<img, pos, header, hfile, last, slice, req, got>>

\* the caller takes the result
Return(t) ==
    /\ pc[t] = "done"
    /\ pc' = [pc EXCEPT ![t] = "idle"]
    /\ req' = [req EXCEPT ![t] = NoRequest]
    /\ got' = [got EXCEPT ![t] = NoResult]
    /\ UNCHANGED <<img, pos, header, hfile, last, slice, locked>>

\* the steps of a transaction once the lock is held
Inside(t) == SeekOk(t) \/ SeekErr(t) \/ ReadStep(t) \/ Release(t)

NextLock ==
    \E t \in Threads :
        \/ \E r \in LockRequests : Call(t, r)
        \/ Acquire(t)
        \/ SeekOk(t)
        \/ SeekErr(t)
        \/ ReadStep(t)
        \/ Release(t)
        \/ Return(t)

SpecLock == InitLock /\ [][NextLock]_vars

\* fair scheduling: a running thread keeps running, and a thread waiting for
\* the mutex is not passed over forever
FairLock ==
    /\ SpecLock
    /\ \A t \in Threads : WF_vars(Inside(t)) /\ SF_vars(Acquire(t))

\* C7: at most one thread is between its lock and its unlock; between a
\* transaction's seek and its read the source's cursor stays where it sought;
\* and the bytes a transaction read are the device's bytes from that position.
C7_TransactionsAtomic ==
    /\ Cardinality({t \in Threads : pc[t] \in Critical}) <= 1
    /\ \A t \in Threads :
          /\ pc[t] = "read" => pos = req[t].at
          /\ (pc[t] \in {"unlock", "done"} /\ got[t].sought)
                => got[t].bytes
                     = SourceBytes(img, req[t].at, SourceAvail(img, req[t].at, req[t].n))

\* one thread has read at one position and still holds the lock while another
\* has completed a transaction at a different position
C7_Witness ==
    \E t \in Threads, u \in Threads :
        /\ t # u
        /\ pc[t] = "unlock" /\ got[t].sought /\ got[t].bytes # <<>>
        /\ pc[u] = "lock" /\ req[u].at # req[t].at

\* C10: the lock is held only by a thread inside its transaction, so it is
\* free whenever a call has returned, on the error paths too; and under fair
\* scheduling every thread waiting for the lock completes its call.
C10_LockReleasedAndProgress ==
    /\ [](locked <=> \E t \in Threads : pc[t] \in Critical)
    /\ \A t \in Threads : (pc[t] = "lock") ~> (pc[t] = "done")

\* a call ended by a failed seek and a call ended by a short read_exact have
\* both returned, and the lock is free
C10_Witness ==
    \E t \in Threads, u \in Threads :
        /\ pc[t] = "done" /\ ~got[t].sought /\ got[t].status = "IOError"
        /\ pc[u] = "done" /\ got[u].sought /\ got[u].status = "IOError"
        /\ ~locked

====
